---- MODULE Spec2Model ----
(***************************************************************************)
(* Model of cnctext: the G-code emitter (grbl.py), the geometry classes    *)
(* Transformation, Font and Line (geometry.py) and the program assembler   *)
(* make_g_code (app.py).                                                   *)
(*                                                                         *)
(* Every component has its own specification over its own variables; the   *)
(* variables of the other components stay at their idle value.             *)
(***************************************************************************)
EXTENDS Integers, Sequences, FiniteSets, TLC

VARIABLES
    gen,      \* the GrblCodeGenerator object (grbl.py), out = lines printed so far
    calls,    \* history: the public calls made on gen, in order
    xf,       \* the Transformation objects under comparison (geometry.py)
    font,     \* the Font.load call: its input and its outcome
    line,     \* the Line object: construction, scaling, galley
    app       \* the make_g_code call: its input and its outcome

vars == <<gen, calls, xf, font, line, app>>

Idle == [pc |-> "idle"]

(***************************************************************************)
(* Bounds of the model.                                                    *)
(***************************************************************************)
MaxCalls == 4          \* public calls made on one emitter
MaxPolyLen == 3        \* points of one polyline
MantissaBits == 12     \* significand width of the floating-point numbers (binary64: 53)
MaxChain == 2          \* scale()/translate() calls chained on one Transformation
MaxTextLen == 6        \* characters of the text of a Line
MaxScalings == 2       \* scaling() calls on one Line
MaxLines == 2          \* lines of one label handed to make_g_code

(***************************************************************************)
(* grbl.py: GrblCodeGenerator                                              *)
(***************************************************************************)
\* <<f_rapid, f_interpolate>>: the defaults of GrblCodeGenerator.__init__,
\* the same exchanged, and the defaults make_g_code passes (equal feeds).
FeedPairs == {<<100, 50>>, <<200, 200>>}
Points == {<<0, 0>>, <<1, 1>>}

\* The printed line: op is the directive with its placeholders, pt the X/Y
\* arguments (<<>> when the directive has none), fs the feed suffix
\* (<<>> for "", <<v>> for " F{v}").
OutLine(op, pt, fs) == [op |-> op, pt |-> pt, fs |-> fs]

\* GrblCodeGenerator.__init__ with the keyword arguments the model varies.
NewGenerator(coord_sys, f_rapid, f_interpolate) ==
    [coord_sys |-> coord_sys, f_rapid |-> f_rapid, f_interpolate |-> f_interpolate,
     is_clear |-> TRUE, feed |-> -1, last_pt |-> <<>>, out |-> <<>>]

o(g, ln) == [g EXCEPT !.out = Append(@, ln)]

f_always(g, feed) == [g |-> [g EXCEPT !.feed = feed], s |-> <<feed>>]

\* Returns the generator after the call and the suffix the call returned.
f(g, feed) ==
    IF feed # g.feed
    THEN [g |-> [g EXCEPT !.feed = feed], s |-> <<feed>>]
    ELSE [g |-> g, s |-> <<>>]

away(g) ==
    LET r == f(g, g.f_rapid)
    IN  [o(r.g, OutLine("G0 Z{z_move}", <<>>, r.s)) EXCEPT !.is_clear = TRUE]

up_unconditional(g) ==
    LET r == f(g, g.f_rapid)
    IN  [o(r.g, OutLine("G0 Z{z_clear}", <<>>, r.s)) EXCEPT !.is_clear = TRUE]

up(g) ==
    IF ~g.is_clear
    THEN LET r == f(g, g.f_rapid)
         IN  [o(r.g, OutLine("G0 Z{z_clear}", <<>>, r.s)) EXCEPT !.is_clear = TRUE]
    ELSE g

down_no_feed(g) ==
    IF g.is_clear
    THEN [o(g, OutLine("G1 Z{z_engrave}", <<>>, <<>>)) EXCEPT !.is_clear = FALSE]
    ELSE g

down(g) ==
    IF g.is_clear
    THEN LET r == f(g, g.f_interpolate)
         IN  [o(r.g, OutLine("G1 Z{z_engrave}", <<>>, r.s)) EXCEPT !.is_clear = FALSE]
    ELSE g

rapid(g, pt) == o(up(g), OutLine("G0 X Y", pt, <<>>))

engrave_no_down(g, pt) ==
    LET r == f(g, g.f_interpolate)
    IN  o(r.g, OutLine("G1 X Y", pt, r.s))

engrave(g, pt) ==
    LET g1 == IF g.is_clear THEN down(g) ELSE g
        r == f(g1, g1.f_interpolate)
    IN  o(r.g, OutLine("G1 X Y", pt, r.s))

start(g) ==
    LET g1 == away(o(g, OutLine("G0 G{coord_sys}", <<>>, <<>>)))
        r == f(g1, g1.f_rapid)
        g2 == o(r.g, OutLine("G0 X0 Y0", <<>>, r.s))
    IN  o(g2, OutLine("M3 S{s_engrave}", <<>>, <<>>))

stop(g) == o(away(g), OutLine("M5", <<>>, <<>>))

RECURSIVE engrave_from(_, _, _)
\* for pt in points[i:]: self.engrave(pt)      (i counts from 1)
engrave_from(g, points, i) ==
    IF i > Len(points) THEN g
    ELSE engrave_from(engrave(g, points[i]), points, i + 1)

\* last_pt is read here and assigned nowhere in the class.
polyline(g, points) ==
    IF points # <<>>
    THEN LET g1 == IF g.last_pt = <<>> \/ g.last_pt # points[1]
                   THEN rapid(g, points[1])
                   ELSE g
         IN  engrave_from(g1, points, 2)
    ELSE g

\* The polylines handed to the emitter: strokes of up to MaxPolyLen points,
\* each segment joining two different points.
Polylines ==
    {p \in UNION {[1..n -> Points] : n \in 0..MaxPolyLen} :
        \A i \in 1..(Len(p) - 1) : p[i] # p[i + 1]}

\* One entry of the call history: the call, its points, the number of lines
\* printed before it and the lift state before it.
Call(op, points) ==
    [op |-> op, points |-> points, from |-> Len(gen.out),
     was_clear |-> gen.is_clear, feed |-> gen.feed]

GenIdle == UNCHANGED <<xf, font, line, app>>

CallStart ==
    /\ Len(calls) < MaxCalls
    /\ gen' = start(gen)
    /\ calls' = Append(calls, Call("start", <<>>))
    /\ GenIdle

CallPolyline ==
    /\ Len(calls) < MaxCalls
    /\ \E points \in Polylines :
          /\ gen' = polyline(gen, points)
          /\ calls' = Append(calls, Call("polyline", points))
    /\ GenIdle

CallStop ==
    /\ Len(calls) < MaxCalls
    /\ gen' = stop(gen)
    /\ calls' = Append(calls, Call("stop", <<>>))
    /\ GenIdle

InitEmitter ==
    /\ \E fp \in FeedPairs : gen = NewGenerator(54, fp[1], fp[2])
    /\ calls = <<>>
    /\ xf = Idle /\ font = Idle /\ line = Idle /\ app = Idle

NextEmitter == CallStart \/ CallPolyline \/ CallStop

SpecEmitter == InitEmitter /\ [][NextEmitter]_vars

(***************************************************************************)
(* Reading the printed program and the call history.                      *)
(***************************************************************************)
IsLift(ln) == ln.op \in {"G0 Z{z_move}", "G0 Z{z_clear}"}
IsLower(ln) == ln.op = "G1 Z{z_engrave}"
IsRapidXY(ln) == ln.op \in {"G0 X Y", "G0 X0 Y0"}
IsEngraveXY(ln) == ln.op = "G1 X Y"

Last(s) == s[Len(s)]

\* The lines call k printed are out[CallFrom(k) + 1 .. CallEnd(k)].
CallFrom(k) == calls[k].from
CallEnd(k) == IF k < Len(calls) THEN calls[k + 1].from ELSE Len(gen.out)
CallLines(k) == (CallFrom(k) + 1)..CallEnd(k)
ClearAfter(k) == IF k < Len(calls) THEN calls[k + 1].was_clear ELSE gen.is_clear
OpsOf(k) == [i \in 1..(CallEnd(k) - CallFrom(k)) |-> gen.out[CallFrom(k) + i].op]

\* Two polyline calls in a row, k and k + 1, each of at least two points.
TwoPolylines(k) ==
    /\ k \in 1..(Len(calls) - 1)
    /\ calls[k].op = "polyline" /\ calls[k + 1].op = "polyline"
    /\ Len(calls[k].points) >= 2 /\ Len(calls[k + 1].points) >= 2
BothLines(k) == (CallFrom(k) + 1)..CallEnd(k + 1)

\* The second polyline starts where the first one ended.
Continues(k) ==
    /\ k \in 1..(Len(calls) - 1)
    /\ calls[k].op = "polyline" /\ calls[k + 1].op = "polyline"
    /\ calls[k].points # <<>> /\ calls[k + 1].points # <<>>
    /\ calls[k + 1].points[1] = Last(calls[k].points)

RECURSIVE MovesMatch(_, _)
\* Replays the printed lines from line i on, the tool being clear or not
\* before it: a lift directive clears it, a lower directive puts it down;
\* every X/Y move must find the lift state of its kind and the replay must
\* end in the tracked lift state.
MovesMatch(i, clear) ==
    IF i > Len(gen.out) THEN clear = gen.is_clear
    ELSE LET ln == gen.out[i]
         IN  /\ IsEngraveXY(ln) => ~clear
             /\ IsRapidXY(ln) => clear
             /\ MovesMatch(i + 1, IF IsLift(ln) THEN TRUE
                                  ELSE IF IsLower(ln) THEN FALSE ELSE clear)

Suffixes == SelectSeq(gen.out, LAMBDA ln : ln.fs # <<>>)

(***************************************************************************)
(* Claims about the emitter (SpecEmitter).                                 *)
(***************************************************************************)

\* C1 (as claimed): the emitter records the last point of every polyline, and
\* a polyline that starts at the last point of the polyline emitted before it
\* prints no lift directive and no rapid X/Y move.
C1_ContinuousPolylineNotRepositioned ==
    \A k \in 1..(Len(calls) - 1) :
        Continues(k) =>
            \A i \in CallLines(k + 1) :
                ~IsLift(gen.out[i]) /\ ~IsRapidXY(gen.out[i])

\* C2 (as claimed): over two consecutive polyline calls the suffix of the
\* interpolation feed is printed exactly once, on the first interpolated X/Y
\* move, and on no other line.
C2_SuffixOnceOnFirstEngraveMove ==
    \A k \in 1..(Len(calls) - 1) :
        TwoPolylines(k) =>
            LET withSuffix == {i \in BothLines(k) : gen.out[i].fs = <<gen.f_interpolate>>}
                moves == {i \in BothLines(k) : IsEngraveXY(gen.out[i])}
            IN  \E i \in moves : (\A m \in moves : i <= m) /\ withSuffix = {i}

\* C2 (amended): over two consecutive polyline calls no interpolated X/Y move
\* carries a feed suffix; the suffix of the interpolation feed is printed only
\* on lower directives: on the first call's one unless that feed was already in
\* effect when the tool is lowered, and again on the second call's one exactly
\* when the rapid feed differs from the interpolation feed.
C2_SuffixOnLowerDirectives ==
    \A k \in 1..(Len(calls) - 1) :
        TwoPolylines(k) =>
            LET lowers1 == {i \in CallLines(k) : IsLower(gen.out[i])}
                lowers2 == {i \in CallLines(k + 1) : IsLower(gen.out[i])}
                inEffect == IF calls[k].was_clear THEN calls[k].feed ELSE gen.f_rapid
            IN  /\ \A i \in BothLines(k) :
                      /\ IsEngraveXY(gen.out[i]) => gen.out[i].fs = <<>>
                      /\ gen.out[i].fs = <<gen.f_interpolate>> => IsLower(gen.out[i])
                /\ Cardinality(lowers1) = 1 /\ Cardinality(lowers2) = 1
                /\ \A i \in lowers1 :
                      /\ gen.out[i].fs # <<>> <=> inEffect # gen.f_interpolate
                      /\ \A m \in CallLines(k) : IsEngraveXY(gen.out[m]) => i < m
                /\ \A i \in lowers2 :
                      /\ gen.out[i].fs # <<>> <=> gen.f_rapid # gen.f_interpolate
                      /\ \A m \in CallLines(k + 1) : IsEngraveXY(gen.out[m]) => i < m

\* Two polyline calls in a row on an emitter whose feeds differ: the suffix
\* of the interpolation feed was printed twice.
C2_Witness ==
    \E k \in 1..(Len(calls) - 1) :
        /\ TwoPolylines(k)
        /\ gen.f_rapid # gen.f_interpolate
        /\ Len(calls[k].points) >= 3
        /\ Cardinality({i \in BothLines(k) : gen.out[i].fs = <<gen.f_interpolate>>}) = 2

\* C3: every feed suffix printed carries a value different from the suffix
\* printed before it, and the tracked feed is the value of the last suffix
\* printed (unset, -1, when none was).
C3_SuffixAlwaysChangesFeed ==
    LET sfx == Suffixes
    IN  /\ \A n \in 1..(Len(sfx) - 1) : sfx[n].fs # sfx[n + 1].fs
        /\ gen.feed = IF sfx = <<>> THEN -1 ELSE Last(sfx).fs[1]

\* start() was called, three suffixes were printed and some interpolated
\* move was printed without one.
C3_Witness ==
    /\ Len(Suffixes) >= 3
    /\ \E i \in 1..Len(gen.out) : IsEngraveXY(gen.out[i]) /\ gen.out[i].fs = <<>>
    /\ \E k \in 1..Len(calls) : calls[k].op = "start"

\* C4: a polyline call prints a lift directive only when the tool was down
\* (then once, to the clearance height, as its first line); stop() prints
\* exactly the lift to the travel height followed by tool-off, whether the
\* tool was clear or down, and leaves the tool clear.
C4_LiftSuppressedInPolylineNotInStop ==
    \A k \in 1..Len(calls) :
        /\ calls[k].op = "polyline" =>
              \A i \in CallLines(k) :
                  IsLift(gen.out[i]) =>
                      /\ ~calls[k].was_clear
                      /\ i = CallFrom(k) + 1
                      /\ gen.out[i].op = "G0 Z{z_clear}"
        /\ calls[k].op = "stop" =>
              /\ OpsOf(k) = <<"G0 Z{z_move}", "M5">>
              /\ ClearAfter(k)

\* stop() was called with the tool clear and with the tool down, and a
\* polyline call lifted the tool.
C4_Witness ==
    /\ \E k \in 1..Len(calls) : calls[k].op = "stop" /\ calls[k].was_clear
    /\ \E k \in 1..Len(calls) : calls[k].op = "stop" /\ ~calls[k].was_clear
    /\ \E k \in 1..Len(calls) :
          calls[k].op = "polyline" /\ \E i \in CallLines(k) : IsLift(gen.out[i])

\* C10: every interpolated X/Y move is printed with the tool down and every
\* rapid X/Y move with the tool clear, by the directives printed before it;
\* the tracked lift state is the one the printed directives leave.
C10_MovesMatchLiftState == MovesMatch(1, TRUE)

\* An engraved stroke was followed by a rapid move to the next one.
C10_Witness ==
    \E i, j \in 1..Len(gen.out) :
        i < j /\ IsEngraveXY(gen.out[i]) /\ IsRapidXY(gen.out[j])

(***************************************************************************)
(* Python floats: binary floating point, every operation rounded to the    *)
(* nearest value of MantissaBits significant bits, ties to even. A number  *)
(* is <<m, e>>, standing for m * 2^e, with m odd (or <<0, 0>>).            *)
(***************************************************************************)
RECURSIVE Pow2(_)
Pow2(n) == IF n <= 0 THEN 1 ELSE 2 * Pow2(n - 1)

RECURSIVE BitLen(_)
BitLen(n) == IF n <= 0 THEN 0 ELSE 1 + BitLen(n \div 2)

Abs(n) == IF n < 0 THEN -n ELSE n
Sign(n) == IF n < 0 THEN -1 ELSE 1
Min(a, b) == IF a <= b THEN a ELSE b

RECURSIVE Norm(_, _)
Norm(m, e) ==
    IF m = 0 THEN <<0, 0>>
    ELSE IF m % 2 = 0 THEN Norm(m \div 2, e + 1) ELSE <<m, e>>

\* The quotient q of a division by 2h, its remainder r: q rounded to
\* nearest, ties to even.
NearestEven(q, r, h) == IF r > h \/ (r = h /\ q % 2 = 1) THEN q + 1 ELSE q

\* m * 2^e with the s lowest bits of m rounded away.
RoundBy(m, e, s) ==
    IF s <= 0 THEN Norm(m, e)
    ELSE Norm(Sign(m) * NearestEven(Abs(m) \div Pow2(s), Abs(m) % Pow2(s), Pow2(s - 1)),
              e + s)

\* m * 2^e rounded to MantissaBits significant bits, ties to even.
Round(m, e) == RoundBy(m, e, BitLen(Abs(m)) - MantissaBits)

FromInt(n) == Round(n, 0)
FMul(a, b) == Round(a[1] * b[1], a[2] + b[2])
\* a + b, both written with the exponent e.
AddAt(a, b, e) == Round(a[1] * Pow2(a[2] - e) + b[1] * Pow2(b[2] - e), e)
FAdd(a, b) == AddAt(a, b, Min(a[2], b[2]))
FNeg(a) == <<-a[1], a[2]>>
FSub(a, b) == FAdd(a, FNeg(b))
\* The quotient of N by B, doubled, its lowest bit telling whether the
\* division left a remainder.
WithSticky(N, B) == 2 * (N \div B) + (IF N % B # 0 THEN 1 ELSE 0)
\* The bits the dividend is shifted by for the quotient to have at least
\* MantissaBits + 2 bits.
DivShift(a, b) ==
    IF MantissaBits + 2 + BitLen(Abs(b[1])) - BitLen(Abs(a[1])) < 0 THEN 0
    ELSE MantissaBits + 2 + BitLen(Abs(b[1])) - BitLen(Abs(a[1]))
DivBy(a, b, k) ==
    Round(Sign(a[1]) * Sign(b[1]) * WithSticky(Abs(a[1]) * Pow2(k), Abs(b[1])),
          a[2] - b[2] - k - 1)
\* a / b, b not zero: the quotient is computed to MantissaBits + 2 bits and
\* a sticky bit, then rounded once.
FDiv(a, b) == IF a[1] = 0 THEN <<0, 0>> ELSE DivBy(a, b, DivShift(a, b))
LessAt(a, b, e) == a[1] * Pow2(a[2] - e) < b[1] * Pow2(b[2] - e)
FLess(a, b) == LessAt(a, b, Min(a[2], b[2]))
\* The float a decimal literal n/d denotes (2.8 is Dec(28, 10)).
Dec(n, d) == FDiv(FromInt(n), FromInt(d))
FZero == FromInt(0)
FOne == FromInt(1)
FPoint(p) == <<FromInt(p[1]), FromInt(p[2])>>

(***************************************************************************)
(* geometry.py: Transformation                                             *)
(***************************************************************************)
Identity == <<<<FOne, FZero, FZero>>, <<FZero, FOne, FZero>>, <<FZero, FZero, FOne>>>>

\* numpy's a @ b for 3x3 matrices.
MatMul(a, b) ==
    [i \in 1..3 |->
        [j \in 1..3 |->
            FAdd(FAdd(FMul(a[i][1], b[1][j]), FMul(a[i][2], b[2][j])),
                 FMul(a[i][3], b[3][j]))]]

TScale(m, x, y) ==
    MatMul(m, <<<<x, FZero, FZero>>, <<FZero, y, FZero>>, <<FZero, FZero, FOne>>>>)

TTranslate(m, x, y) ==
    MatMul(m, <<<<FOne, FZero, x>>, <<FZero, FOne, y>>, <<FZero, FZero, FOne>>>>)

\* __init__ written with scale() and translate(), which the comment in
\* __init__ warns against.
Transformation_delegating(scale, translate) ==
    LET m1 == IF scale # <<>> THEN TScale(Identity, scale[1], scale[2]) ELSE Identity
    IN  IF translate # <<>> THEN TTranslate(m1, translate[1], translate[2]) ELSE m1

\* Transformation(scale, translate); <<>> stands for None.
Transformation(scale, translate) ==
    LET m1 == IF scale # <<>>
              THEN [Identity EXCEPT ![1][1] = scale[1], ![2][2] = scale[2]]
              ELSE Identity
    IN  IF translate # <<>>
        THEN [m1 EXCEPT ![1][3] = translate[1], ![2][3] = translate[2]]
        ELSE m1

\* __call__: the first two components of matrix @ [x, y, 1].
TCall(m, pt) ==
    [i \in 1..2 |->
        FAdd(FAdd(FMul(m[i][1], pt[1]), FMul(m[i][2], pt[2])), FMul(m[i][3], FOne))]

\* The vectors of the class's doctests.
ScaleVectors == {<<FromInt(2), Dec(1, 2)>>, <<FromInt(2), FromInt(3)>>}
TranslateVectors == {<<FromInt(3), FromInt(5)>>, <<FromInt(-3), FromInt(-4)>>}
CallPoints == {FPoint(<<3, 4>>), FPoint(<<4, 5>>)}

\* xf holds two Transformation objects: direct, built by the constructor
\* from the arguments args, and chain, built from Transformation() by the
\* scale()/translate() calls listed in ops; at is the point last transformed
\* by both, with the results.
XfIdle == UNCHANGED <<gen, calls, font, line, app>>

XfConstruct ==
    /\ xf.args = <<>>
    /\ \E sc \in ScaleVectors \cup {<<>>}, tr \in TranslateVectors \cup {<<>>} :
          xf' = [xf EXCEPT !.direct = Transformation(sc, tr), !.args = <<sc, tr>>,
                           !.at = <<>>]
    /\ XfIdle

XfScale ==
    /\ Len(xf.ops) < MaxChain
    /\ \E v \in ScaleVectors :
          xf' = [xf EXCEPT !.chain = TScale(@, v[1], v[2]),
                           !.ops = Append(@, <<"scale", v>>), !.at = <<>>]
    /\ XfIdle

XfTranslate ==
    /\ Len(xf.ops) < MaxChain
    /\ \E v \in TranslateVectors :
          xf' = [xf EXCEPT !.chain = TTranslate(@, v[1], v[2]),
                           !.ops = Append(@, <<"translate", v>>), !.at = <<>>]
    /\ XfIdle

XfCall ==
    /\ xf.args # <<>>
    /\ xf.at = <<>>
    /\ \E pt \in CallPoints :
          xf' = [xf EXCEPT !.at = <<pt, TCall(xf.direct, pt), TCall(xf.chain, pt)>>]
    /\ XfIdle

InitTransform ==
    /\ xf = [direct |-> Identity, args |-> <<>>, chain |-> Identity, ops |-> <<>>,
             at |-> <<>>]
    /\ gen = Idle /\ calls = Idle /\ font = Idle /\ line = Idle /\ app = Idle

NextTransform == XfConstruct \/ XfScale \/ XfTranslate \/ XfCall

SpecTransform == InitTransform /\ [][NextTransform]_vars

(***************************************************************************)
(* Claims about Transformation (SpecTransform).                            *)
(***************************************************************************)
BothGiven == xf.args # <<>> /\ xf.args[1] # <<>> /\ xf.args[2] # <<>>

\* C7 (as claimed): a Transformation constructed with scale s and translate
\* t maps every point as Transformation().scale(s).translate(t) does.
C7_DirectEqualsScaleThenTranslate ==
    (/\ BothGiven
     /\ xf.ops = <<<<"scale", xf.args[1]>>, <<"translate", xf.args[2]>>>>
     /\ xf.at # <<>>)
        => xf.at[2] = xf.at[3]

\* C7 (amended): a Transformation constructed with scale s and translate t
\* has the matrix of, and maps every point as, Transformation().translate(t)
\* .scale(s): the translation is not scaled.
C7_DirectEqualsTranslateThenScale ==
    (/\ BothGiven
     /\ xf.ops = <<<<"translate", xf.args[2]>>, <<"scale", xf.args[1]>>>>)
        => /\ xf.direct = xf.chain
           /\ xf.at # <<>> => xf.at[2] = xf.at[3]

\* Transformation((2, 0.5), (3, 5)) and Transformation().translate(3, 5)
\* .scale(2, 0.5) both mapped (3, 4), to (9, 7).
C7_Witness ==
    /\ BothGiven
    /\ xf.args = <<<<FromInt(2), Dec(1, 2)>>, <<FromInt(3), FromInt(5)>>>>
    /\ xf.ops = <<<<"translate", xf.args[2]>>, <<"scale", xf.args[1]>>>>
    /\ xf.at = <<FPoint(<<3, 4>>), FPoint(<<9, 7>>), FPoint(<<9, 7>>)>>

(***************************************************************************)
(* geometry.py: Character and Font                                         *)
(***************************************************************************)
Character(cellwidth, strokes) == [cellwidth |-> cellwidth, strokes |-> strokes]

\* Character.scaled: the scaled cell width and strokes, as a Character.
scaled(c, x, y) ==
    LET xfrm == Transformation(<<x, y>>, <<>>)
    IN  Character(FMul(c.cellwidth, x),
                  [i \in 1..Len(c.strokes) |->
                      [j \in 1..Len(c.strokes[i]) |-> TCall(xfrm, c.strokes[i][j])]])

Stroke(pts) == [j \in 1..Len(pts) |-> FPoint(pts[j])]
Glyph(code, width, strokes) ==
    [code |-> code, width |-> FromInt(width),
     strokes |-> [i \in 1..Len(strokes) |-> Stroke(strokes[i])]]

\* The records the font parser can hand to Font.load, by character code:
\* a font file holds any of them, at most one for each code. '+' is the
\* glyph of the doctests' test font.
GlyphPool ==
    {Glyph(32, 12, <<<<<<0, 0>>, <<0, 0>>>>>>),
     Glyph(43, 26, <<<<<<13, 18>>, <<13, 0>>>>, <<<<4, 9>>, <<22, 9>>>>>>),
     Glyph(43, 10, <<<<<<5, 10>>, <<5, 0>>>>, <<<<0, 5>>, <<10, 5>>>>>>),
     Glyph(45, 10, <<<<<<2, 5>>, <<8, 5>>>>>>),
     Glyph(47, 10, <<<<<<0, 0>>, <<10, 10>>>>>>),
     Glyph(47, 14, <<<<<<0, 0>>, <<14, 10>>>>>>),
     Glyph(48, 10, <<<<<<2, 0>>, <<8, 0>>, <<8, 10>>, <<2, 10>>, <<2, 0>>>>>>)}

FontFiles ==
    {cd \in SUBSET GlyphPool :
        cd # {} /\ \A a, b \in cd : a.code = b.code => a = b}

\* The y coordinates of the points of a list of strokes.
StrokeYs(strokes) ==
    UNION {{strokes[i][j][2] : j \in DOMAIN strokes[i]} : i \in DOMAIN strokes}

FMaxOf(S) == CHOOSE a \in S : \A b \in S : ~FLess(a, b)
FMinOf(S) == CHOOSE a \in S : \A b \in S : ~FLess(b, a)

\* Font.load after parse() returned chardata. The outcome is the Font
\* (characters, height) or the exception that ended the call.
load(chardata) ==
    LET codes == {r.code : r \in chardata}
        parsed == [c \in codes |->
                      LET r == CHOOSE r \in chardata : r.code = c
                      IN  Character(r.width, r.strokes)]
        height == FMaxOf({FZero} \cup UNION {StrokeYs(r.strokes) : r \in chardata})
        minwidth == FMinOf({parsed[c].cellwidth : c \in codes})
        space == Character(FDiv(FMul(minwidth, FromInt(2)), FromInt(3)), <<>>)
        chars1 == IF 32 \notin codes
                  THEN [c \in codes \cup {32} |-> IF c = 32 THEN space ELSE parsed[c]]
                  ELSE parsed
        chars2 == IF chars1[47].cellwidth = chars1[48].cellwidth
                  THEN [chars1 EXCEPT ![47] = scaled(chars1[47], Dec(1, 2), FOne)]
                  ELSE chars1
        chars3 == [chars2 EXCEPT ![45] = scaled(chars2[45], Dec(3, 4), FOne)]
    IN  IF 47 \notin DOMAIN chars1 \/ 48 \notin DOMAIN chars1
        THEN [err |-> "KeyError", characters |-> chars1, height |-> height]
        ELSE IF 45 \notin DOMAIN chars2
        THEN [err |-> "KeyError", characters |-> chars2, height |-> height]
        ELSE [err |-> "", characters |-> chars3, height |-> height]

\* Font.__getitem__: the Character, or KeyError.
getitem(fnt, code) ==
    IF code \in DOMAIN fnt.characters
    THEN [err |-> "", char |-> fnt.characters[code]]
    ELSE [err |-> "KeyError", char |-> <<>>]

LookupCodes == {32, 43, 65}

FontIdle == UNCHANGED <<gen, calls, xf, line, app>>

\* Font.load(fontfile), the file holding the records font.chardata.
FontLoad ==
    /\ font.pc = "parsed"
    /\ font' = [font EXCEPT !.pc = "loaded", !.result = load(font.chardata)]
    /\ FontIdle

\* font[code] on the Font that load returned.
FontGetItem ==
    /\ font.pc = "loaded" /\ font.result.err = ""
    /\ \E code \in LookupCodes :
          font' = [font EXCEPT !.pc = "looked up",
                               !.lookup = <<code, getitem(font.result, code)>>]
    /\ FontIdle

InitFont ==
    /\ \E cd \in FontFiles :
          font = [pc |-> "parsed", chardata |-> cd, result |-> <<>>, lookup |-> <<>>]
    /\ gen = Idle /\ calls = Idle /\ xf = Idle /\ line = Idle /\ app = Idle

NextFont == FontLoad \/ FontGetItem

SpecFont == InitFont /\ [][NextFont]_vars

(***************************************************************************)
(* Claims about Font (SpecFont).                                           *)
(***************************************************************************)
SourceCodes == {r.code : r \in font.chardata}

\* C8 (as claimed): for every font, whichever character codes its records
\* carry, Font.load completes and the Font has a glyph for code 32; when the
\* source had none, that glyph has no strokes and two thirds of the smallest
\* cell width of the loaded glyphs.
C8_LoadCompletesWithSpaceGlyph ==
    font.pc # "parsed" =>
        /\ font.result.err = ""
        /\ 32 \in DOMAIN font.result.characters
        /\ 32 \notin SourceCodes =>
              /\ font.result.characters[32].strokes = <<>>
              /\ font.result.characters[32].cellwidth =
                    FDiv(FMul(FMinOf({r.width : r \in font.chardata}), FromInt(2)),
                         FromInt(3))

(***************************************************************************)
(* geometry.py: Line                                                       *)
(***************************************************************************)
MIN_GAP_WIDTH == FromInt(2)
MAX_ASPECT_RATIO == Dec(125, 100)
MIN_ASPECT_RATIO == Dec(75, 100)

\* Texts are sequences of characters; "a" has no glyph in the font used.
Alphabet == {"+", " ", "a"}
Texts == UNION {[1..n -> Alphabet] : n \in 0..MaxTextLen}
Ord(ch) == IF ch = "+" THEN 43 ELSE IF ch = " " THEN 32 ELSE 97

RunEnd_two_spaces(text, i) == i + 1

RECURSIVE RunEnd(_, _)
\* text[i] and text[i + 1] are spaces: the index of the last space of the
\* match of "  +" that starts at i (the + is greedy).
RunEnd(text, i) ==
    IF i < Len(text) /\ text[i + 1] = " " THEN RunEnd(text, i + 1) ELSE i

RECURSIVE SplitFrom(_, _, _, _)
\* re.split(GAP_RE, text), scanning from i; the current part began at b and
\* parts are the parts cut so far.
SplitFrom(text, i, b, parts) ==
    IF i > Len(text) THEN Append(parts, SubSeq(text, b, Len(text)))
    ELSE IF i < Len(text) /\ text[i] = " " /\ text[i + 1] = " "
    THEN LET j == RunEnd(text, i)
         IN  SplitFrom(text, j + 1, j + 1, Append(parts, SubSeq(text, b, i - 1)))
    ELSE SplitFrom(text, i + 1, b, parts)

split(text) == SplitFrom(text, 1, 1, <<>>)

\* Line.__init__: the Line object (obj) or the exception raised (err; args
\* are the arguments the exception carries).
NewLine(fnt, text) ==
    LET parts == split(text)
        codes == [k \in 1..Len(parts) |-> [n \in 1..Len(parts[k]) |-> Ord(parts[k][n])]]
        known == \A k \in 1..Len(codes) : \A n \in 1..Len(codes[k]) :
                    getitem(fnt, codes[k][n]).err = ""
        obj == [gap_width |-> MIN_GAP_WIDTH, font |-> fnt, parts |-> parts,
                codes |-> codes]
    IN  IF Len(parts) > 2
        THEN [err |-> "ValueError",
              args |-> <<"Line must not have more than one gap">>, obj |-> <<>>]
        ELSE IF ~known
        THEN [err |-> "KeyError", args |-> <<>>, obj |-> <<>>]
        ELSE [err |-> "", args |-> <<>>, obj |-> obj]

has_gap(l) == Len(l.parts) = 2

\* all_characters: the Characters of all parts, in order.
all_characters(l) ==
    LET cs == IF Len(l.codes) = 2 THEN l.codes[1] \o l.codes[2] ELSE l.codes[1]
    IN  [n \in 1..Len(cs) |-> l.font.characters[cs[n]]]

RECURSIVE SumWidths(_, _)
SumWidths(chars, n) ==
    IF n = 0 THEN FZero ELSE FAdd(SumWidths(chars, n - 1), chars[n].cellwidth)

width(l) == SumWidths(all_characters(l), Len(all_characters(l)))

Joined(l) == IF Len(l.parts) = 2 THEN l.parts[1] \o <<" ", " ">> \o l.parts[2]
             ELSE l.parts[1]

scaling_keeps_gap(l, size) ==
    LET x == IF has_gap(l) THEN FSub(size[1], l.gap_width) ELSE size[1]
        w == width(l)
        sx == FDiv(x, w)
        sy == FDiv(size[2], l.font.height)
        aspect == FDiv(sx, sy)
    IN  IF w = FZero \/ l.font.height = FZero \/ sy = FZero
        THEN [err |-> "ZeroDivisionError", args |-> <<>>, obj |-> l, ret |-> <<>>,
              clamped |-> FALSE]
        ELSE IF FLess(aspect, MIN_ASPECT_RATIO)
        THEN [err |-> "GeometryError",
              args |-> <<"Bad aspect ratio; font too narrow", Joined(l)>>,
              obj |-> l, ret |-> <<>>, clamped |-> FALSE]
        ELSE IF FLess(MAX_ASPECT_RATIO, aspect)
        THEN [err |-> "", args |-> <<>>, obj |-> l,
              ret |-> <<FMul(sy, MAX_ASPECT_RATIO), sy>>, clamped |-> TRUE]
        ELSE [err |-> "", args |-> <<>>, obj |-> l, ret |-> <<sx, sy>>,
              clamped |-> FALSE]

\* Line.scaling(size): the exception raised or the returned factors (ret),
\* and the Line object after the call (its gap_width may have changed).
\* clamped tells whether the stretch branch was taken.
scaling(l, size) ==
    LET x == IF has_gap(l) THEN FSub(size[1], l.gap_width) ELSE size[1]
        w == width(l)
        sx == FDiv(x, w)
        sy == FDiv(size[2], l.font.height)
        aspect == FDiv(sx, sy)
        sx2 == FMul(sy, MAX_ASPECT_RATIO)
    IN  IF w = FZero \/ l.font.height = FZero \/ sy = FZero
        THEN [err |-> "ZeroDivisionError", args |-> <<>>, obj |-> l, ret |-> <<>>,
              clamped |-> FALSE]
        ELSE IF FLess(aspect, MIN_ASPECT_RATIO)
        THEN [err |-> "GeometryError",
              args |-> <<"Bad aspect ratio; font too narrow", Joined(l)>>,
              obj |-> l, ret |-> <<>>, clamped |-> FALSE]
        ELSE IF FLess(MAX_ASPECT_RATIO, aspect)
        THEN [err |-> "", args |-> <<>>,
              obj |-> IF has_gap(l)
                      THEN [l EXCEPT !.gap_width = FSub(size[1], FMul(w, sx2))]
                      ELSE l,
              ret |-> <<sx2, sy>>, clamped |-> TRUE]
        ELSE [err |-> "", args |-> <<>>, obj |-> l, ret |-> <<sx, sy>>,
              clamped |-> FALSE]

RECURSIVE GalleyFrom(_, _, _, _, _, _, _)
\* The loops of Line.galley from character n of part k on; x is the cursor
\* and result the placements appended so far.
GalleyFrom(l, sx, sy, k, n, x, result) ==
    IF k > Len(l.codes) THEN result
    ELSE IF n > Len(l.codes[k])
    THEN GalleyFrom(l, sx, sy, k + 1, 1,
                    IF has_gap(l) THEN FAdd(x, l.gap_width) ELSE x, result)
    ELSE LET c == scaled(l.font.characters[l.codes[k][n]], sx, sy)
         IN  GalleyFrom(l, sx, sy, k, n + 1, FAdd(x, c.cellwidth),
                        Append(result, <<x, c.strokes>>))

\* Line.galley(sx, sy): the list of (x, strokes).
galley(l, sx, sy) == GalleyFrom(l, sx, sy, 1, 1, FZero, <<>>)

(***************************************************************************)
(* app.py: the label dimensions                                            *)
(***************************************************************************)
LINE_SPREAD == Dec(8, 10)
CHAR_HEIGHT == Dec(25, 10)
TOTAL_WIDTH == FromInt(23)

\* line_height of make_g_code, single and double height.
LineHeight(double_height) ==
    IF double_height THEN FAdd(CHAR_HEIGHT, FAdd(CHAR_HEIGHT, LINE_SPREAD))
    ELSE CHAR_HEIGHT

\* The sizes lines are fitted into: those of make_g_code and a label half
\* as wide.
LabelSizes ==
    {<<w, LineHeight(d)>> : w \in {TOTAL_WIDTH, FromInt(12)}, d \in BOOLEAN}

\* The font of the lines: '+', '-', '/' and '0', ten units wide and high.
LineFont ==
    load({g \in GlyphPool : g.code \in {43, 45, 47, 48} /\ g.width = FromInt(10)})

LineIdle == UNCHANGED <<gen, calls, xf, font, app>>

\* Line(font, text)
LineConstruct ==
    /\ line.pc = "new"
    /\ \E text \in Texts :
          LET r == NewLine(LineFont, text)
          IN  line' = [line EXCEPT !.pc = IF r.err = "" THEN "constructed" ELSE "failed",
                                   !.text = text, !.parts = split(text),
                                   !.err = r.err, !.args = r.args, !.obj = r.obj]
    /\ LineIdle

\* line.scaling(size)
LineScaling ==
    /\ line.pc \in {"constructed", "scaled", "laid out"}
    /\ line.nscale < MaxScalings
    /\ \E size \in LabelSizes :
          LET r == scaling(line.obj, size)
          IN  line' = [line EXCEPT !.pc = IF r.err = "" THEN "scaled" ELSE "failed",
                                   !.err = r.err, !.args = r.args, !.obj = r.obj,
                                   !.size = size, !.ret = r.ret,
                                   !.clamped = r.clamped, !.nscale = @ + 1]
    /\ LineIdle

\* line.galley(sx, sy) with the factors the last scaling call returned.
LineGalley ==
    /\ line.pc = "scaled"
    /\ line' = [line EXCEPT !.pc = "laid out",
                            !.layouts = Append(@,
                                [size |-> line.size, ret |-> line.ret,
                                 gap_width |-> line.obj.gap_width,
                                 clamped |-> line.clamped,
                                 galley |-> galley(line.obj, line.ret[1], line.ret[2])])]
    /\ LineIdle

InitLine ==
    /\ line = [pc |-> "new", text |-> <<>>, parts |-> <<>>, err |-> "", args |-> <<>>,
               obj |-> <<>>, size |-> <<>>, ret |-> <<>>, clamped |-> FALSE,
               nscale |-> 0, layouts |-> <<>>]
    /\ gen = Idle /\ calls = Idle /\ xf = Idle /\ font = Idle /\ app = Idle

NextLine == LineConstruct \/ LineScaling \/ LineGalley

SpecLine == InitLine /\ [][NextLine]_vars

(***************************************************************************)
(* Claims about Line (SpecLine).                                           *)
(***************************************************************************)
\* The gaps of a text: its maximal runs of two or more spaces.
GapStarts(text) ==
    {i \in 1..(Len(text) - 1) :
        text[i] = " " /\ text[i + 1] = " " /\ (i = 1 \/ text[i - 1] # " ")}
NumGaps(text) == Cardinality(GapStarts(text))
HasThreeSpaces(text) ==
    \E i \in 1..(Len(text) - 2) : text[i] = " " /\ text[i + 1] = " " /\ text[i + 2] = " "

NLeft == Len(line.obj.codes[1])
NRight == Len(line.obj.codes[2])
ScaledWidth(L, n) == FMul(all_characters(line.obj)[n].cellwidth, L.ret[1])
EndOf(L, n) == FAdd(L.galley[n][1], ScaledWidth(L, n))
LeftEnd(L) == IF NLeft = 0 THEN FZero ELSE EndOf(L, NLeft)
LineEnd(L) == IF NRight = 0 THEN FAdd(LeftEnd(L), L.gap_width)
              ELSE EndOf(L, NLeft + NRight)
SameFactors(L) ==
    \A n \in 1..Len(L.galley) :
        L.galley[n][2] = scaled(all_characters(line.obj)[n], L.ret[1], L.ret[2]).strokes

\* a - b without rounding, and the absolute value.
DiffAt(a, b, e) == Norm(a[1] * Pow2(a[2] - e) - b[1] * Pow2(b[2] - e), e)
ExactDiff(a, b) == DiffAt(a, b, Min(a[2], b[2]))
FAbs(a) == <<Abs(a[1]), a[2]>>
\* k units of relative rounding error (2^-MantissaBits) of a.
Roundings(k, a) == <<k * a[1], a[2] - MantissaBits>>

\* C6 (as claimed): for a line with a gap, the layout galley makes with the
\* factors scaling returned ends at exactly the target width, whether the
\* stretch clamp applied or not; the first glyph of the right part starts
\* exactly gap_width after the end of the left part; all glyphs are scaled by
\* the same factors.
C6_LayoutFillsWidthExactly ==
    \A n \in 1..Len(line.layouts) :
        LET L == line.layouts[n]
        IN  has_gap(line.obj) =>
                /\ LineEnd(L) = L.size[1]
                /\ NRight > 0 =>
                      ExactDiff(L.galley[NLeft + 1][1], LeftEnd(L)) = L.gap_width
                /\ Len(L.galley) = NLeft + NRight
                /\ SameFactors(L)

\* a <= b
FLeq(a, b) == ~FLess(b, a)

\* C6 (amended): for a line with a gap, the layout galley makes with the
\* factors scaling returned ends at the target width up to the rounding of
\* the floating-point operations that computed it (at most three roundings
\* for each glyph and three more), not exactly, whether the stretch clamp
\* applied or not; the first glyph of the right part starts at the rounded
\* sum of the end of the left part and of gap_width; all glyphs are scaled by
\* the same factors.
C6_LayoutFillsWidthUpToRounding ==
    \A n \in 1..Len(line.layouts) :
        LET L == line.layouts[n]
        IN  has_gap(line.obj) =>
                /\ FLeq(FAbs(ExactDiff(LineEnd(L), L.size[1])),
                        Roundings(3 * (NLeft + NRight) + 3, L.size[1]))
                /\ NRight > 0 =>
                      L.galley[NLeft + 1][1] = FAdd(LeftEnd(L), L.gap_width)
                /\ Len(L.galley) = NLeft + NRight
                /\ SameFactors(L)

\* One line with a gap and glyphs on both sides of it was laid out twice,
\* once with the stretch clamp and once without, and one of the layouts does
\* not end exactly at the target width.
C6_Witness ==
    /\ line.pc = "laid out" /\ has_gap(line.obj) /\ NLeft > 0 /\ NRight > 0
    /\ \E a, b \in 1..Len(line.layouts) :
          /\ line.layouts[a].clamped /\ ~line.layouts[b].clamped
          /\ line.layouts[a].gap_width # MIN_GAP_WIDTH
    /\ \E a \in 1..Len(line.layouts) : LineEnd(line.layouts[a]) # line.layouts[a].size[1]

(***************************************************************************)
(* app.py: offset and make_g_code                                          *)
(***************************************************************************)
\* round(a, 3): the exact value of a rounded to a multiple of 1/1000, ties
\* to even, and the float nearest to that decimal.
round3(a) ==
    LET num == Abs(a[1]) * 1000 * Pow2(a[2])
        den == Pow2(-a[2])
        q == num \div den
        r == num % den
        n == IF 2 * r > den \/ (2 * r = den /\ q % 2 = 1) THEN q + 1 ELSE q
    IN  FDiv(<<Sign(a[1]) * n, 0>>, <<1000, 0>>)

offset(base, points) ==
    [j \in 1..Len(points) |->
        <<round3(FAdd(points[j][1], base[1])), round3(FAdd(points[j][2], base[2]))>>]

ScalingParams == 1     \* def scaling(self, size): one parameter besides self

\* line.scaling(*args) as Python binds it: a call with more positional
\* arguments than the method has parameters raises TypeError before the body
\* runs.
call_scaling(l, args) ==
    IF Len(args) # ScalingParams
    THEN [err |-> "TypeError", args |-> <<>>, obj |-> l, ret |-> <<>>, clamped |-> FALSE]
    ELSE scaling(l, args[1])

RECURSIVE StrokesFrom(_, _, _, _)
\* for stroke in strokes[i:]: gen.polyline(offset((base_x, base_y), stroke))
StrokesFrom(g, base, strokes, i) ==
    IF i > Len(strokes) THEN g
    ELSE StrokesFrom(polyline(g, offset(base, strokes[i])), base, strokes, i + 1)

RECURSIVE GalleyEntriesFrom(_, _, _, _)
\* for base_x, strokes in galley[n:]: ...
GalleyEntriesFrom(g, gal, base_y, n) ==
    IF n > Len(gal) THEN g
    ELSE GalleyEntriesFrom(StrokesFrom(g, <<gal[n][1], base_y>>, gal[n][2], 1),
                           gal, base_y, n + 1)

RECURSIVE LinesFrom(_, _, _, _, _)
\* The loop over reversed(lines), from lines[k] down to lines[1]. The outcome
\* is the exception that ended it, or none, and the generator.
LinesFrom(g, lines, k, base_y, double_height) ==
    IF k = 0 THEN [err |-> "", gen |-> g]
    ELSE LET r == call_scaling(lines[k],
                               <<<<TOTAL_WIDTH, LineHeight(double_height)>>,
                                 double_height>>)
         IN  IF r.err # "" THEN [err |-> r.err, gen |-> g]
             ELSE LinesFrom(GalleyEntriesFrom(g, galley(r.obj, r.ret[1], r.ret[2]),
                                              base_y, 1),
                            [lines EXCEPT ![k] = r.obj], k - 1,
                            FAdd(base_y, FAdd(LINE_SPREAD, CHAR_HEIGHT)), double_height)

\* cncopts.get(key, 200): opt is <<>> when the key is absent.
OptGet(opt, default) == IF opt = <<>> THEN default ELSE opt[1]

\* make_g_code(lines, coord_sys, double_height, **cncopts): the exception
\* raised, or the program returned (the lines written to the sink); sink
\* is what had been written when the call ended.
make_g_code(lines, coord_sys, double_height, cncopts) ==
    IF coord_sys < 54 \/ coord_sys > 59
    THEN [err |-> "ValueError", program |-> <<>>, sink |-> <<>>]
    ELSE LET g0 == NewGenerator(coord_sys, OptGet(cncopts.rapid_feed, 200),
                                OptGet(cncopts.interpolate_feed, 200))
             r == LinesFrom(start(g0), lines, Len(lines), LINE_SPREAD, double_height)
         IN  IF r.err # ""
             THEN [err |-> r.err, program |-> <<>>, sink |-> r.gen.out]
             ELSE [err |-> "", program |-> stop(r.gen).out, sink |-> stop(r.gen).out]

\* The lines of the labels: texts that fit the label at either height.
LabelTexts == {<<"+", "+", "+", "+">>, <<"+", "+", " ", " ", "+", "+">>}
LabelLines == {NewLine(LineFont, t).obj : t \in LabelTexts}
Labels == UNION {[1..n -> LabelLines] : n \in 0..MaxLines}
CncOpts == [rapid_feed : {<<>>, <<100>>}, interpolate_feed : {<<>>, <<50>>}]

AppIdle == UNCHANGED <<gen, calls, xf, font, line>>

AppMakeGCode ==
    /\ app.pc = "ready"
    /\ app' = [app EXCEPT !.pc = "done",
                          !.result = make_g_code(app.lines, app.coord_sys,
                                                 app.double_height, app.cncopts)]
    /\ AppIdle

InitApp ==
    /\ \E lines \in Labels, cs \in 53..60, dh \in BOOLEAN, opts \in CncOpts :
          app = [pc |-> "ready", lines |-> lines, coord_sys |-> cs,
                 double_height |-> dh, cncopts |-> opts, result |-> <<>>]
    /\ gen = Idle /\ calls = Idle /\ xf = Idle /\ font = Idle /\ line = Idle

NextApp == AppMakeGCode

SpecApp == InitApp /\ [][NextApp]_vars

(***************************************************************************)
(* Claims about make_g_code (SpecApp).                                     *)
(***************************************************************************)
Ops(prog) == [i \in 1..Len(prog) |-> prog[i].op]
XYPoints(prog) ==
    LET moves == SelectSeq(prog, LAMBDA ln : ln.op \in {"G0 X Y", "G1 X Y"})
    IN  [i \in 1..Len(moves) |-> moves[i].pt]
CountOp(prog, op) == Cardinality({i \in 1..Len(prog) : prog[i].op = op})

RECURSIVE Flatten(_)
Flatten(ss) == IF ss = <<>> THEN <<>> ELSE Head(ss) \o Flatten(Tail(ss))

\* The points of lines[k], fitted and laid out, on the baseline base_y.
LinePoints(l, double_height, base_y) ==
    LET r == scaling(l, <<TOTAL_WIDTH, LineHeight(double_height)>>)
        gal == galley(r.obj, r.ret[1], r.ret[2])
    IN  Flatten([n \in 1..Len(gal) |->
                    Flatten([i \in 1..Len(gal[n][2]) |->
                                offset(<<gal[n][1], base_y>>, gal[n][2][i])])])

RECURSIVE BaseY(_)
\* The baseline of the j-th line fed to the emitter.
BaseY(j) == IF j = 1 THEN LINE_SPREAD
            ELSE FAdd(BaseY(j - 1), FAdd(LINE_SPREAD, CHAR_HEIGHT))

ExpectedPoints ==
    LET n == Len(app.lines)
    IN  Flatten([j \in 1..n |->
                    LinePoints(app.lines[n + 1 - j], app.double_height, BaseY(j))])

AllLinesFit ==
    \A k \in 1..Len(app.lines) :
        scaling(app.lines[k], <<TOTAL_WIDTH, LineHeight(app.double_height)>>).err = ""

\* C9 (as claimed): for a coordinate system 54..59 and lines that each fit
\* the label, make_g_code returns a complete program: the start sequence once
\* and first, the strokes of the lines from the last line to the first, each
\* line one line spacing and character height above the one before, and the
\* stop sequence once and last.
C9_ReturnsCompleteProgram ==
    (app.pc = "done" /\ app.coord_sys \in 54..59 /\ AllLinesFit) =>
        LET prog == app.result.program
        IN  /\ app.result.err = ""
            /\ Len(prog) >= 6
            /\ SubSeq(Ops(prog), 1, 4) =
                  <<"G0 G{coord_sys}", "G0 Z{z_move}", "G0 X0 Y0", "M3 S{s_engrave}">>
            /\ SubSeq(Ops(prog), Len(prog) - 1, Len(prog)) = <<"G0 Z{z_move}", "M5">>
            /\ CountOp(prog, "G0 G{coord_sys}") = 1 /\ CountOp(prog, "M3 S{s_engrave}") = 1
            /\ CountOp(prog, "M5") = 1 /\ CountOp(prog, "G0 Z{z_move}") = 2
            /\ XYPoints(prog) = ExpectedPoints

====
